---------------------------- MODULE Spec2Model ----------------------------
(***************************************************************************)
(* Model of the Beastmaster's Ledge dashboard script (src/hello.py).       *)
(*                                                                         *)
(* The script is executed top to bottom by its host and executed again     *)
(* whenever a widget changes.  One execution loads the "monsters" table,   *)
(* derives cr_num and survivability, reads seven filter widgets, filters,  *)
(* renders the filtered table or a message, and then renders eight charts  *)
(* and two ranking tables.                                                 *)
(*                                                                         *)
(* Encoding of values:                                                     *)
(*   - a missing value (None / NaN / null) is the empty tuple <<>>;        *)
(*   - a present integer or string x is the one-element tuple <<x>>;       *)
(*   - a present float is a rational <<n, d>> in lowest terms with d > 0   *)
(*     (binary rounding of floats is not modelled);                        *)
(*   - a Python string that is parsed is a sequence of its characters;     *)
(*   - a raw CR cell is [kind, num, str] with kind "null", "num" or "str". *)
(***************************************************************************)
EXTENDS Integers, Sequences, FiniteSets, TLC

VARIABLES
    pc,          \* position of the running execution
    cr,          \* argument of a direct call of parse_cr
    ret,         \* outcome of that call
    monsters,    \* the data source's table "monsters"
    df,          \* the loaded table, with the derived columns once computed
    widgets,     \* current values of the seven filter widgets
    df_filt,     \* the filtered table
    shown,       \* what the filter stage rendered
    sv, radar_df, alig_df, src, leg_df, freq, corr,   \* data handed to the charts
    top10, bot10,                                      \* the two ranking tables
    prev_run     \* what the previous execution rendered

vars == <<pc, cr, ret, monsters, df, widgets, df_filt, shown,
          sv, radar_df, alig_df, src, leg_df, freq, corr, top10, bot10, prev_run>>

---------------------------------------------------------------------------
(* Bounds *)

MaxLen == 4          \* longest CR string given to a direct parse_cr call
MaxRows == 2         \* most rows of a table run through the whole script
MaxRankRows == 21    \* most rows of a table given to the ranking step

---------------------------------------------------------------------------
(* Missing values and rationals *)

None == <<>>

Some(x) == <<x>>

IsMissing(x) == x = <<>>

Abs(n) == IF n < 0 THEN -n ELSE n

RECURSIVE GCD(_, _)
GCD(a, b) == IF b = 0 THEN a ELSE GCD(b, a % b)

\* the rational n/d (d # 0) in lowest terms with a positive denominator
Rat(n, d) ==
    LET g == GCD(Abs(n), Abs(d))
        s == IF d < 0 THEN -1 ELSE 1
    IN  <<(s * n) \div g, (s * d) \div g>>

RatLe(a, b) == a[1] * b[2] <= b[1] * a[2]

RatAdd(a, b) == Rat(a[1] * b[2] + b[1] * a[2], a[2] * b[2])

\* x >= y and x <= y of a column cell against a widget value: a comparison
\* with a missing operand is False
Ge(x, y) == ~IsMissing(x) /\ ~IsMissing(y) /\ RatLe(y, x)

\* a <= written as <
Le_strict(x, y) == ~IsMissing(x) /\ ~IsMissing(y) /\ ~RatLe(y, x)

Le(x, y) == ~IsMissing(x) /\ ~IsMissing(y) /\ RatLe(x, y)

\* an integer cell as a number
Num(c) == IF IsMissing(c) THEN None ELSE Rat(c[1], 1)

---------------------------------------------------------------------------
(* parse_cr *)

Chars == {"0", "1", "4", "5", "/", "-", "+", "a"}

Digits == {"0", "1", "2", "3", "4", "5", "6", "7", "8", "9"}

DigitVal(c) ==
    CASE c = "0" -> 0 [] c = "1" -> 1 [] c = "2" -> 2 [] c = "3" -> 3
      [] c = "4" -> 4 [] c = "5" -> 5 [] c = "6" -> 6 [] c = "7" -> 7
      [] c = "8" -> 8 [] c = "9" -> 9

IsDigits(s) == Len(s) > 0 /\ \A i \in 1..Len(s) : s[i] \in Digits

RECURSIVE DecVal(_)
DecVal(s) ==
    IF s = <<>> THEN 0
    ELSE 10 * DecVal(SubSeq(s, 1, Len(s) - 1)) + DigitVal(s[Len(s)])

HasSlash(s) == \E i \in 1..Len(s) : s[i] = "/"

HasSign(s) == Len(s) > 0 /\ s[1] \in {"-", "+"}

Unsigned(s) == IF HasSign(s) THEN Tail(s) ELSE s

SignOf(s) == IF Len(s) > 0 /\ s[1] = "-" THEN -1 ELSE 1

Returned(v) == [exc |-> "none", val |-> v]

Raised(e) == [exc |-> e, val |-> None]

\* float(Fraction(s)) for a string s over Chars: an optional sign, digits,
\* "/", digits; anything else is a ValueError, a zero denominator a
\* ZeroDivisionError
FloatOfFraction(s) ==
    LET u == Unsigned(s)
        k == CHOOSE i \in 1..Len(u) : u[i] = "/"
        num == SubSeq(u, 1, k - 1)
        den == SubSeq(u, k + 1, Len(u))
    IN  IF ~HasSlash(u) \/ ~IsDigits(num) \/ ~IsDigits(den)
        THEN Raised("ValueError")
        ELSE IF DecVal(den) = 0
             THEN Raised("ZeroDivisionError")
             ELSE Returned(Rat(SignOf(s) * DecVal(num), DecVal(den)))

\* float(cr) inside try/except: a number converts, a string over Chars
\* converts when it is an optional sign and digits, and every failure
\* (None included) is caught and gives None
FloatOrNone(c) ==
    CASE c.kind = "num" -> Returned(Rat(c.num, 1))
      [] c.kind = "str" ->
            IF IsDigits(Unsigned(c.str))
            THEN Returned(Rat(SignOf(c.str) * DecVal(Unsigned(c.str)), 1))
            ELSE Returned(None)
      [] OTHER -> Returned(None)

\* a parse_cr whose fraction branch divides as integers
parse_cr_floordiv(c) ==
    IF c.kind = "str" /\ HasSlash(c.str)
    THEN LET r == FloatOfFraction(c.str)
         IN  IF r.exc = "none" THEN Returned(Rat(r.val[1] \div r.val[2], 1)) ELSE r
    ELSE FloatOrNone(c)

parse_cr(c) ==
    IF c.kind = "str" /\ HasSlash(c.str)
    THEN FloatOfFraction(c.str)
    ELSE FloatOrNone(c)

CrNull == [kind |-> "null", num |-> 0, str |-> <<>>]

CrNum(n) == [kind |-> "num", num |-> n, str |-> <<>>]

CrStr(s) == [kind |-> "str", num |-> 0, str |-> s]

CrNums == {-1, 0, 5}

StrsUpTo(n) == UNION {[1..k -> Chars] : k \in 0..n}

CrInputs == {CrNull} \cup {CrNum(n) : n \in CrNums} \cup {CrStr(s) : s \in StrsUpTo(MaxLen)}

Pending == [exc |-> "pending", val |-> None]

NoWidgets ==
    [min_ac |-> None, max_ac |-> None, min_hp |-> None, max_hp |-> None,
     min_cr |-> None, max_cr |-> None, legendary_only |-> FALSE]

NoRun == [valid |-> FALSE, shown |-> <<>>, charts |-> <<>>]

\* everything but pc, cr and ret, before anything has run
Blank ==
    /\ monsters = <<>> /\ df = <<>> /\ widgets = NoWidgets /\ df_filt = <<>>
    /\ shown = <<>> /\ sv = <<>> /\ radar_df = <<>> /\ alig_df = <<>>
    /\ src = <<>> /\ leg_df = <<>> /\ freq = <<>> /\ corr = <<>>
    /\ top10 = <<>> /\ bot10 = <<>> /\ prev_run = NoRun

InitParse ==
    /\ pc = "call"
    /\ cr \in CrInputs
    /\ ret = Pending
    /\ Blank

CallParseCr ==
    /\ pc = "call"
    /\ ret' = parse_cr(cr)
    /\ pc' = "returned"
    /\ UNCHANGED <<cr, monsters, df, widgets, df_filt, shown, sv, radar_df,
                   alig_df, src, leg_df, freq, corr, top10, bot10, prev_run>>

NextParse == CallParseCr

SpecParse == InitParse /\ [][NextParse]_vars

---------------------------------------------------------------------------
(* The table *)

SHOW_COLS == <<"name", "cr", "type", "size", "ac", "hp", "speed", "align", "legendary">>

stats == <<"str", "dex", "con", "int", "wis", "cha">>

TopN == 10

\* the string universes of the group keys, each in lexicographic order
Types == <<"beast", "dragon">>

Sizes == <<"Large", "Small">>

Sources == <<"MM", "Unknown">>

Scores(v) == [s \in {stats[i] : i \in 1..Len(stats)} |-> Some(v)]

Monster(name, c, type, size, ac, hp, align, legendary, source, st) ==
    [name |-> Some(name), cr |-> c, type |-> type, size |-> size, ac |-> ac,
     hp |-> hp, speed |-> Some("30 ft."), align |-> align,
     legendary |-> legendary, source |-> source] @@ st

\* the rows a "monsters" table of the whole-script model is made of
Bestiary ==
    { Monster("Cat", CrStr(<<"1", "/", "4">>), "beast", "Small", Some(15), Some(20),
              None, None, Some("MM"), Scores(10)),
      Monster("Wyrm", CrNum(1), "dragon", "Large", Some(16), Some(21),
              Some("LG"), Some("Legendary"), None, Scores(12)),
      Monster("Imp", CrNull, "beast", "Large", Some(15), None,
              Some("LG"), None, Some("Unknown"), [Scores(10) EXCEPT !["dex"] = None]),
      Monster("Ooze", CrStr(<<"a">>), "beast", "Small", None, Some(20),
              None, Some("Lair"), None, Scores(10)),
      Monster("Shade", CrNum(-1), "dragon", "Small", Some(16), Some(20),
              Some("CE"), Some("Legendary"), Some("MM"), Scores(12)),
      Monster("Bug", CrStr(<<"1", "/", "0">>), "beast", "Small", Some(15), Some(21),
              None, None, Some("MM"), Scores(10)) }

Tables == UNION {[1..n -> Bestiary] : n \in 0..MaxRows}

Rows(t) == 1..Len(t)

\* get_df: the table with its RangeIndex
WithIndex(t) == [i \in Rows(t) |-> t[i] @@ [index |-> i - 1]]

\* line 27: the product of the two columns, missing when either is
Survivability_sum(ac, hp) ==
    IF IsMissing(ac) \/ IsMissing(hp) THEN None ELSE Some(ac[1] + hp[1])

Survivability(ac, hp) ==
    IF IsMissing(ac) \/ IsMissing(hp) THEN None ELSE Some(ac[1] * hp[1])

\* lines 26-27 when no parse_cr call raises
Derived(t) ==
    [i \in Rows(t) |->
        t[i] @@ [cr_num |-> parse_cr(t[i].cr).val,
                 survivability |-> Survivability(t[i].ac, t[i].hp)]]

ParseRaises(t) == \E i \in Rows(t) : parse_cr(t[i].cr).exc # "none"

Present(t, col) == {i \in Rows(t) : ~IsMissing(t[i][col])}

\* Series.min() and Series.max() of a numeric column skip missing cells and
\* are missing when nothing is left
ColMin(t, col) ==
    IF Present(t, col) = {} THEN None
    ELSE LET i == CHOOSE i \in Present(t, col) :
                      \A j \in Present(t, col) : RatLe(Num(t[i][col]), Num(t[j][col]))
         IN  Num(t[i][col])

ColMax(t, col) ==
    IF Present(t, col) = {} THEN None
    ELSE LET i == CHOOSE i \in Present(t, col) :
                      \A j \in Present(t, col) : RatLe(Num(t[j][col]), Num(t[i][col]))
         IN  Num(t[i][col])

CrMax(t) ==
    IF Present(t, "cr_num") = {} THEN None
    ELSE LET i == CHOOSE i \in Present(t, "cr_num") :
                      \A j \in Present(t, "cr_num") : RatLe(t[j].cr_num, t[i].cr_num)
         IN  t[i].cr_num

---------------------------------------------------------------------------
(* The widgets *)

\* int(NaN) raises: the AC and HP sliders cannot be built from a column
\* with no value
SlidersRaise(t) == Present(t, "ac") = {} \/ Present(t, "hp") = {}

\* the defaults with Max AC copied from Min AC
SliderDefaults_copied(t) ==
    [min_ac |-> ColMin(t, "ac"), max_ac |-> ColMin(t, "ac"),
     min_hp |-> ColMin(t, "hp"), max_hp |-> ColMax(t, "hp"),
     min_cr |-> Rat(0, 1), max_cr |-> CrMax(t), legendary_only |-> FALSE]

SliderDefaults(t) ==
    [min_ac |-> ColMin(t, "ac"), max_ac |-> ColMax(t, "ac"),
     min_hp |-> ColMin(t, "hp"), max_hp |-> ColMax(t, "hp"),
     min_cr |-> Rat(0, 1), max_cr |-> CrMax(t), legendary_only |-> FALSE]

\* min_val and max_val of the three slider pairs
SliderBounds(t) ==
    [ac |-> <<ColMin(t, "ac"), ColMax(t, "ac")>>,
     hp |-> <<ColMin(t, "hp"), ColMax(t, "hp")>>,
     cr |-> <<Rat(0, 1), CrMax(t)>>]

\* the positions of an integer slider with step 1
IntSlider(b) == {Rat(n, 1) : n \in b[1][1]..b[2][1]}

\* the positions of a CR slider: 0.0, 0.5, ... up to max_val, and its default
CrSlider(b, default) ==
    {default} \cup
    (IF IsMissing(b[2]) THEN {}
     ELSE {Rat(k, 2) : k \in {k \in 0..(2 * Abs(b[2][1])) : RatLe(Rat(k, 2), b[2])}})

\* the values the host can hand over once the user has moved the widgets
WidgetValues(t) ==
    LET b == SliderBounds(t)
        d == SliderDefaults(t)
    IN  [min_ac : IntSlider(b.ac), max_ac : IntSlider(b.ac),
         min_hp : IntSlider(b.hp), max_hp : IntSlider(b.hp),
         min_cr : CrSlider(b.cr, d.min_cr), max_cr : CrSlider(b.cr, d.max_cr),
         legendary_only : BOOLEAN]

---------------------------------------------------------------------------
(* The filter stage *)

\* lines 89-96: the mask of one row
InRanges(r, w) ==
    /\ Ge(Num(r.ac), w.min_ac)
    /\ Le(Num(r.ac), w.max_ac)
    /\ Ge(Num(r.hp), w.min_hp)
    /\ Le(Num(r.hp), w.max_hp)
    /\ Ge(r.cr_num, w.min_cr)
    /\ Le(r.cr_num, w.max_cr)

\* lines 97-98
IsLegendary(r) == r.legendary = Some("Legendary")

RECURSIVE Select(_, _, _)
\* boolean-mask indexing: the rows i of t with keep[i], in order
Select(t, keep, n) ==
    IF n = 0 THEN <<>>
    ELSE Select(t, keep, n - 1) \o (IF keep[n] THEN <<t[n]>> ELSE <<>>)

Filtered(t, w) ==
    LET byRange == Select(t, [i \in Rows(t) |-> InRanges(t[i], w)], Len(t))
    IN  IF w.legendary_only
        THEN Select(byRange, [i \in Rows(byRange) |-> IsLegendary(byRange[i])], Len(byRange))
        ELSE byRange

Elems(s) == {s[i] : i \in 1..Len(s)}

\* df[cols]: the listed columns of every row
Project(t, cols) == [i \in Rows(t) |-> [c \in Elems(cols) |-> t[i][c]]]

---------------------------------------------------------------------------
(* Sorting, grouping and ranking *)

Neg(k) == IF IsMissing(k) THEN None ELSE <<-k[1], k[2]>>

\* i sorts before j: smaller key first, equal keys in row order, missing last
Before(keys, i, j) ==
    \/ ~IsMissing(keys[i]) /\ IsMissing(keys[j])
    \/ /\ ~IsMissing(keys[i]) /\ ~IsMissing(keys[j])
       /\ \/ ~RatLe(keys[j], keys[i])
          \/ keys[i] = keys[j] /\ i < j
    \/ IsMissing(keys[i]) /\ IsMissing(keys[j]) /\ i < j

RECURSIVE OrderOf(_, _)
OrderOf(keys, rest) ==
    IF rest = {} THEN <<>>
    ELSE LET i == CHOOSE i \in rest : \A j \in rest \ {i} : Before(keys, i, j)
         IN  <<i>> \o OrderOf(keys, rest \ {i})

\* the positions of keys in ascending and in descending order (stable)
AscOrder(keys) == OrderOf(keys, DOMAIN keys)

DescOrder(keys) == OrderOf([i \in DOMAIN keys |-> Neg(keys[i])], DOMAIN keys)

Take(s, n) == SubSeq(s, 1, IF Len(s) < n THEN Len(s) ELSE n)

SurvKeys(t) == [i \in Rows(t) |-> Num(t[i].survivability)]

RankCols == SHOW_COLS \o <<"survivability">>

\* DataFrame.nlargest / nsmallest (keep="first"): the n first rows in
\* descending / ascending order of the column, rows without a value after
\* the others; each row keeps its index label
nlargest(t, n) ==
    LET o == Take(DescOrder(SurvKeys(t)), n)
    IN  [k \in 1..Len(o) |-> [c \in Elems(RankCols) \cup {"index"} |-> t[o[k]][c]]]

\* an nsmallest that ranks in descending order
nsmallest_desc(t, n) ==
    LET o == Take(DescOrder(SurvKeys(t)), n)
    IN  [k \in 1..Len(o) |-> [c \in Elems(RankCols) \cup {"index"} |-> t[o[k]][c]]]

nsmallest(t, n) ==
    LET o == Take(AscOrder(SurvKeys(t)), n)
    IN  [k \in 1..Len(o) |-> [c \in Elems(RankCols) \cup {"index"} |-> t[o[k]][c]]]

\* s[keep]: the elements of s whose mask cell is true
Mask(s, keep) == Select(s, keep, Len(s))

\* the group keys of a groupby: those of universe (a sorted list) that occur
KeysIn(universe, occurring) ==
    Mask(universe, [k \in 1..Len(universe) |-> universe[k] \in occurring])

ColumnSet(t, col) == {t[i][col] : i \in Rows(t)}

\* the rows of t with the given value in the column
Group(t, col, v) == Mask(t, [i \in Rows(t) |-> t[i][col] = v])

RECURSIVE SumOf(_, _)
SumOf(cells, n) ==
    IF n = 0 THEN Rat(0, 1) ELSE RatAdd(SumOf(cells, n - 1), Num(cells[n]))

\* the mean of the present cells, missing when there is none
Mean(cells) ==
    LET there == Mask(cells, [i \in 1..Len(cells) |-> ~IsMissing(cells[i])])
        total == SumOf(there, Len(there))
    IN  IF there = <<>> THEN None ELSE Rat(total[1], total[2] * Len(there))

Column(t, col) == [i \in Rows(t) |-> t[i][col]]

Reorder(s, o) == [k \in 1..Len(o) |-> s[o[k]]]

---------------------------------------------------------------------------
(* The data of the charts *)

\* lines 110-115
SurvByType(t) ==
    LET ks == KeysIn(Types, ColumnSet(t, "type"))
        g  == [k \in 1..Len(ks) |->
                 [type |-> ks[k],
                  survivability |-> Mean(Column(Group(t, "type", ks[k]), "survivability"))]]
    IN  Reorder(g, DescOrder([k \in 1..Len(g) |-> g[k].survivability]))

HasAllStats(r) == \A k \in 1..Len(stats) : ~IsMissing(r[stats[k]])

\* lines 128-135: one (size, stat, avg) row per stat and size
RadarData(t) ==
    LET full == Mask(t, [i \in Rows(t) |-> HasAllStats(t[i])])
        ks   == KeysIn(Sizes, ColumnSet(full, "size"))
        n    == Len(ks)
    IN  [m \in 1..(Len(stats) * n) |->
            LET st == stats[((m - 1) \div n) + 1]
                sz == ks[((m - 1) % n) + 1]
            IN  [size |-> sz, stat |-> st,
                 avg |-> Mean(Column(Group(full, "size", sz), st))]]

\* line 147
AlignData(t) ==
    Mask(t, [i \in Rows(t) |-> ~IsMissing(t[i].align) /\ ~IsMissing(t[i].cr_num)])

\* the count of the non-missing cells of a column
Count(t, col) == Cardinality(Present(t, col))

\* a fillna that fills nothing in
FillSource_skipped(t) == t

\* fillna({'source': 'Unknown'}): the table with a source in every row
FillSource(t) ==
    [i \in Rows(t) |->
        [t[i] EXCEPT !.source = IF IsMissing(t[i].source) THEN Some("Unknown")
                                ELSE t[i].source]]

\* groupby('source') .agg(count=('name', 'count')) .sort_values('count',
\* ascending=False); groupby leaves out the rows whose key is missing
CountBySource(t) ==
    LET known == Mask(t, [i \in Rows(t) |-> ~IsMissing(t[i].source)])
        ks == KeysIn(Sources, {c[1] : c \in ColumnSet(known, "source")})
        g  == [k \in 1..Len(ks) |->
                 [source |-> ks[k],
                  count |-> Count(Group(known, "source", Some(ks[k])), "name")]]
    IN  Reorder(g, DescOrder([k \in 1..Len(g) |-> Rat(g[k].count, 1)]))

\* lines 159-165
SourceCounts(t) == CountBySource(FillSource(t))

\* line 177
LegendaryData(t) ==
    [i \in Rows(t) |->
        t[i] @@ [category |-> IF IsMissing(t[i].legendary) THEN "Common"
                              ELSE t[i].legendary[1]]]

\* line 189: the TopN most frequent types
TopTypes(t) ==
    LET ks == KeysIn(Types, ColumnSet(t, "type"))
        n  == [k \in 1..Len(ks) |-> Rat(Len(Group(t, "type", ks[k])), 1)]
    IN  Elems(Take(Reorder(ks, DescOrder(n)), TopN))

\* lines 190-196: the columns and, per size, the counts of each column
TypeBySize(t) ==
    LET sub  == Mask(t, [i \in Rows(t) |-> t[i].type \in TopTypes(t)])
        cols == KeysIn(Types, ColumnSet(sub, "type"))
        szs  == KeysIn(Sizes, ColumnSet(sub, "size"))
    IN  <<cols,
          [a \in 1..Len(szs) |->
              <<szs[a],
                [b \in 1..Len(cols) |->
                    Count(Group(Group(sub, "size", szs[a]), "type", cols[b]), "name")]>>]>>

numcols == <<"cr_num", "ac", "hp", "str", "dex", "con", "int", "wis", "cha">>

\* lines 208-209: the columns the correlation matrix is computed from (the
\* matrix itself, a function of these columns alone, is not computed)
CorrData(t) == Project(t, numcols)

---------------------------------------------------------------------------
(* One execution of the script, step by step *)

Charts == <<sv, radar_df, alig_df, src, leg_df, freq, corr, top10, bot10>>

Init ==
    /\ pc = "load"
    /\ monsters \in Tables
    /\ cr = CrNull /\ ret = Pending
    /\ df = <<>> /\ widgets = NoWidgets /\ df_filt = <<>> /\ shown = <<>>
    /\ sv = <<>> /\ radar_df = <<>> /\ alig_df = <<>> /\ src = <<>>
    /\ leg_df = <<>> /\ freq = <<>> /\ corr = <<>> /\ top10 = <<>> /\ bot10 = <<>>
    /\ prev_run = NoRun

\* line 23
Load ==
    /\ pc = "load"
    /\ df' = WithIndex(monsters)
    /\ pc' = "derive"
    /\ UNCHANGED <<cr, ret, monsters, widgets, df_filt, shown, Charts, prev_run>>

\* lines 26-27
Derive ==
    /\ pc = "derive"
    /\ ~ParseRaises(df)
    /\ df' = Derived(df)
    /\ pc' = "sliders"
    /\ UNCHANGED <<cr, ret, monsters, widgets, df_filt, shown, Charts, prev_run>>

\* line 26 when a parse_cr call raises: the exception ends the execution
DeriveRaises ==
    /\ pc = "derive"
    /\ ParseRaises(df)
    /\ pc' = "crashed"
    /\ UNCHANGED <<cr, ret, monsters, df, widgets, df_filt, shown, Charts, prev_run>>

\* lines 33-85: the host hands over the current value of every widget, its
\* default in the first execution and what the user has set in a later one
Sliders ==
    /\ pc = "sliders"
    /\ ~SlidersRaise(df)
    /\ IF prev_run.valid
       THEN widgets' \in WidgetValues(df)
       ELSE widgets' = SliderDefaults(df)
    /\ pc' = "filter"
    /\ UNCHANGED <<cr, ret, monsters, df, df_filt, shown, Charts, prev_run>>

\* lines 35 and 51 when int() is given NaN
SlidersFail ==
    /\ pc = "sliders"
    /\ SlidersRaise(df)
    /\ pc' = "crashed"
    /\ UNCHANGED <<cr, ret, monsters, df, widgets, df_filt, shown, Charts, prev_run>>

\* lines 88-98
ApplyFilter ==
    /\ pc = "filter"
    /\ df_filt' = Filtered(df, widgets)
    /\ pc' = "display"
    /\ UNCHANGED <<cr, ret, monsters, df, widgets, shown, Charts, prev_run>>

\* lines 101-104
Display ==
    /\ pc = "display"
    /\ shown' = IF df_filt = <<>>
                THEN <<[call |-> "text", rows |-> <<>>]>>
                ELSE <<[call |-> "table", rows |-> Project(df_filt, SHOW_COLS)]>>
    /\ pc' = "chapter1"
    /\ UNCHANGED <<cr, ret, monsters, df, widgets, df_filt, Charts, prev_run>>

\* Chapter I computed from the filtered table
ChapterI_filtered ==
    /\ pc = "chapter1"
    /\ sv' = SurvByType(df_filt)
    /\ pc' = "chapter2"
    /\ UNCHANGED <<cr, ret, monsters, df, widgets, df_filt, shown, radar_df, alig_df,
                   src, leg_df, freq, corr, top10, bot10, prev_run>>

\* lines 110-121
ChapterI ==
    /\ pc = "chapter1"
    /\ sv' = SurvByType(df)
    /\ pc' = "chapter2"
    /\ UNCHANGED <<cr, ret, monsters, df, widgets, df_filt, shown, radar_df, alig_df,
                   src, leg_df, freq, corr, top10, bot10, prev_run>>

\* lines 127-141
ChapterII ==
    /\ pc = "chapter2"
    /\ radar_df' = RadarData(df)
    /\ pc' = "chapter3"
    /\ UNCHANGED <<cr, ret, monsters, df, widgets, df_filt, shown, sv, alig_df,
                   src, leg_df, freq, corr, top10, bot10, prev_run>>

\* lines 147-153
ChapterIII ==
    /\ pc = "chapter3"
    /\ alig_df' = AlignData(df)
    /\ pc' = "chapter4"
    /\ UNCHANGED <<cr, ret, monsters, df, widgets, df_filt, shown, sv, radar_df,
                   src, leg_df, freq, corr, top10, bot10, prev_run>>

\* Chapter IV with the fillna done in place on df
ChapterIV_inplace ==
    /\ pc = "chapter4"
    /\ df' = FillSource(df)
    /\ src' = SourceCounts(df)
    /\ pc' = "chapter5"
    /\ UNCHANGED <<cr, ret, monsters, widgets, df_filt, shown, sv, radar_df,
                   alig_df, leg_df, freq, corr, top10, bot10, prev_run>>

\* lines 159-171
ChapterIV ==
    /\ pc = "chapter4"
    /\ src' = SourceCounts(df)
    /\ pc' = "chapter5"
    /\ UNCHANGED <<cr, ret, monsters, df, widgets, df_filt, shown, sv, radar_df,
                   alig_df, leg_df, freq, corr, top10, bot10, prev_run>>

\* lines 177-183
ChapterV ==
    /\ pc = "chapter5"
    /\ leg_df' = LegendaryData(df)
    /\ pc' = "chapter6"
    /\ UNCHANGED <<cr, ret, monsters, df, widgets, df_filt, shown, sv, radar_df,
                   alig_df, src, freq, corr, top10, bot10, prev_run>>

\* lines 189-202
ChapterVI ==
    /\ pc = "chapter6"
    /\ freq' = TypeBySize(df)
    /\ pc' = "chapter7"
    /\ UNCHANGED <<cr, ret, monsters, df, widgets, df_filt, shown, sv, radar_df,
                   alig_df, src, leg_df, corr, top10, bot10, prev_run>>

\* lines 208-214
ChapterVII ==
    /\ pc = "chapter7"
    /\ corr' = CorrData(df)
    /\ pc' = "chapter8"
    /\ UNCHANGED <<cr, ret, monsters, df, widgets, df_filt, shown, sv, radar_df,
                   alig_df, src, leg_df, freq, top10, bot10, prev_run>>

\* lines 220-225
ChapterVIII ==
    /\ pc = "chapter8"
    /\ top10' = nlargest(df, TopN)
    /\ bot10' = nsmallest(df, TopN)
    /\ pc' = "done"
    /\ UNCHANGED <<cr, ret, monsters, df, widgets, df_filt, shown, sv, radar_df,
                   alig_df, src, leg_df, freq, corr, prev_run>>

\* a widget changes and the host executes the script again, from the top;
\* what the finished execution rendered is what was on screen before
Rerun ==
    /\ pc = "done"
    /\ prev_run' = [valid |-> TRUE, shown |-> shown, charts |-> Charts]
    /\ pc' = "load"
    /\ df' = <<>> /\ widgets' = NoWidgets /\ df_filt' = <<>> /\ shown' = <<>>
    /\ sv' = <<>> /\ radar_df' = <<>> /\ alig_df' = <<>> /\ src' = <<>>
    /\ leg_df' = <<>> /\ freq' = <<>> /\ corr' = <<>> /\ top10' = <<>> /\ bot10' = <<>>
    /\ UNCHANGED <<cr, ret, monsters>>

Next ==
    \/ Load \/ Derive \/ DeriveRaises \/ Sliders \/ SlidersFail
    \/ ApplyFilter \/ Display
    \/ ChapterI \/ ChapterII \/ ChapterIII \/ ChapterIV
    \/ ChapterV \/ ChapterVI \/ ChapterVII \/ ChapterVIII
    \/ Rerun

Spec == Init /\ [][Next]_vars

---------------------------------------------------------------------------
(* The ranking step on longer tables *)

RankRow(ac, hp) ==
    Monster("Beast", CrNum(1), "beast", "Small", ac, hp, None, None, None, Scores(10))

\* n rows whose AC runs through the multiples of k modulo m and whose HP is
\* missing in every gap-th row (gap = 0: in none)
RankTable(n, k, m, gap) ==
    [i \in 1..n |->
        RankRow(Some(((i * k) % m) + 1),
                IF gap > 0 /\ i % gap = 0 THEN None ELSE Some(2))]

RankTables ==
    {RankTable(n, k, m, gap) :
        n \in 0..MaxRankRows, k \in {1, 5, 7, 22}, m \in {1, 3, 7, 23}, gap \in {0, 4}}

InitRank ==
    /\ pc = "chapter8"
    /\ monsters \in RankTables
    /\ df = Derived(WithIndex(monsters))
    /\ cr = CrNull /\ ret = Pending
    /\ widgets = NoWidgets /\ df_filt = <<>> /\ shown = <<>>
    /\ sv = <<>> /\ radar_df = <<>> /\ alig_df = <<>> /\ src = <<>>
    /\ leg_df = <<>> /\ freq = <<>> /\ corr = <<>> /\ top10 = <<>> /\ bot10 = <<>>
    /\ prev_run = NoRun

NextRank == ChapterVIII

SpecRank == InitRank /\ [][NextRank]_vars

---------------------------------------------------------------------------
(* Vocabulary of the properties *)

DigitChars == <<"0", "1", "2", "3", "4", "5", "6", "7", "8", "9">>

RECURSIVE DigitsOf(_)
DigitsOf(n) ==
    IF n < 10 THEN <<DigitChars[n + 1]>>
    ELSE DigitsOf(n \div 10) \o <<DigitChars[(n % 10) + 1]>>

\* the decimal text of an integer
Show(n) == IF n < 0 THEN <<"-">> \o DigitsOf(-n) ELSE DigitsOf(n)

TextInts == -15..15

\* the texts "a/b" with their a and b
FractionTexts ==
    {[text |-> Show(a) \o <<"/">> \o Show(b), a |-> a, b |-> b] : a \in TextInts, b \in TextInts}

NumberTexts == {[text |-> Show(n), n |-> n] : n \in TextInts}

\* ret is the number a/b
ReturnsQuotient(a, b) ==
    /\ ret.exc = "none"
    /\ Len(ret.val) = 2
    /\ ret.val[1] * b = a * ret.val[2]

ReturnsMissing == ret.exc = "none" /\ ret.val = <<>>

NonNumeric(s) == \A i \in 1..Len(s) : s[i] \notin Elems(DigitChars)

AfterDerive ==
    {"sliders", "filter", "display", "chapter1", "chapter2", "chapter3", "chapter4",
     "chapter5", "chapter6", "chapter7", "chapter8", "done"}

AfterFilter == AfterDerive \ {"sliders", "filter"}

AfterChapterIV == {"chapter5", "chapter6", "chapter7", "chapter8", "done"}

\* lo <= x <= hi of three present numbers
Within(x, lo, hi) ==
    /\ lo[1] * x[2] <= x[1] * lo[2]
    /\ x[1] * hi[2] <= hi[1] * x[2]

\* the record passes the criteria w
Matches(r, w) ==
    /\ r.ac # <<>> /\ w.min_ac # <<>> /\ w.max_ac # <<>>
    /\ Within(<<r.ac[1], 1>>, w.min_ac, w.max_ac)
    /\ r.hp # <<>> /\ w.min_hp # <<>> /\ w.max_hp # <<>>
    /\ Within(<<r.hp[1], 1>>, w.min_hp, w.max_hp)
    /\ r.cr_num # <<>> /\ w.min_cr # <<>> /\ w.max_cr # <<>>
    /\ Within(r.cr_num, w.min_cr, w.max_cr)
    /\ (w.legendary_only => r.legendary = <<"Legendary">>)

\* v is the least / the greatest of the present cells of an integer column
IsColMin(v, col) ==
    /\ \E i \in Rows(df) : df[i][col] # <<>> /\ v = <<df[i][col][1], 1>>
    /\ \A i \in Rows(df) : df[i][col] # <<>> => v[1] <= df[i][col][1]

IsColMax(v, col) ==
    /\ \E i \in Rows(df) : df[i][col] # <<>> /\ v = <<df[i][col][1], 1>>
    /\ \A i \in Rows(df) : df[i][col] # <<>> => v[1] >= df[i][col][1]

IsCrMax(v) ==
    IF \A i \in Rows(df) : df[i].cr_num = <<>> THEN v = <<>>
    ELSE /\ \E i \in Rows(df) : v = df[i].cr_num
         /\ \A i \in Rows(df) : df[i].cr_num # <<>> =>
                df[i].cr_num[1] * v[2] <= v[1] * df[i].cr_num[2]

\* the widgets hold the defaults: the observed minimum and maximum of AC and
\* of HP, 0.0, the observed maximum of cr_num, and false
HoldDefaults ==
    /\ IsColMin(widgets.min_ac, "ac") /\ IsColMax(widgets.max_ac, "ac")
    /\ IsColMin(widgets.min_hp, "hp") /\ IsColMax(widgets.max_hp, "hp")
    /\ widgets.min_cr = <<0, 1>> /\ IsCrMax(widgets.max_cr)
    /\ ~widgets.legendary_only

\* the widgets have not been touched, or have been set back to their defaults
AtDefaults == ~prev_run.valid \/ HoldDefaults

HasAllThree(r) == r.ac # <<>> /\ r.hp # <<>> /\ r.cr_num # <<>> /\ r.cr_num[1] >= 0

IndexSet(t) == {t[i].index : i \in Rows(t)}

Smaller(a, b) == IF a < b THEN a ELSE b

\* every record has a survivability and no two have the same
AllDistinct(t) ==
    /\ \A i \in Rows(t) : t[i].survivability # <<>>
    /\ \A i, j \in Rows(t) : i # j => t[i].survivability # t[j].survivability

RECURSIVE TotalCount(_)
TotalCount(g) == IF g = <<>> THEN 0 ELSE Head(g).count + TotalCount(Tail(g))

---------------------------------------------------------------------------
(* Properties *)

\* C1: parse_cr never raises: every call returns a number or the missing
\* value, and it returns the missing value for a string with a zero
\* denominator and for a string with no digit in it.
C1_ParseCrNeverRaises ==
    pc = "returned" =>
        /\ ret.exc = "none"
        /\ cr.kind = "str" /\ NonNumeric(cr.str) => ReturnsMissing
        /\ \A f \in FractionTexts : f.b = 0 /\ cr = CrStr(f.text) => ReturnsMissing

\* C2: the filtered table is exactly the records of the derived table, in
\* order, whose ac, hp and cr_num lie within the inclusive widget ranges and,
\* with legendary_only set, whose legendary is "Legendary"; it holds no
\* record without cr_num and, with legendary_only set, none with a null
\* legendary.
C2_FilterExact ==
    pc \in AfterFilter =>
        /\ df_filt = SelectSeq(df, LAMBDA r : Matches(r, widgets))
        /\ \A i \in Rows(df_filt) :
              /\ df_filt[i].cr_num # <<>>
              /\ widgets.legendary_only => df_filt[i].legendary # <<>>

C2_Witness ==
    /\ pc = "display"
    /\ Len(df) = 2 /\ df[1].ac = <<15>> /\ df[2].ac = <<16>>
    /\ widgets.min_ac = <<15, 1>> /\ widgets.max_ac = <<15, 1>>
    /\ df_filt = <<df[1]>>

\* C3 as stated: with the widgets at their defaults the filtered table is
\* the whole table.
C3_DefaultsKeepAll ==
    pc \in AfterFilter /\ AtDefaults => df_filt = df

\* C3 as amended: with the widgets at their defaults the filtered table
\* holds, unchanged and in order, exactly the records whose ac, hp and cr_num
\* are present and whose cr_num is not negative.
C3_DefaultsKeepComplete ==
    pc \in AfterFilter /\ AtDefaults =>
        /\ HoldDefaults
        /\ df_filt = SelectSeq(df, HasAllThree)

C3_Witness ==
    /\ pc = "display" /\ HoldDefaults
    /\ Len(df) = 2 /\ df[1].ac # df[2].ac /\ df[1].hp # df[2].hp
    /\ df_filt = df

C5_UnionSize ==
    pc = "done" =>
        /\ Cardinality(IndexSet(top10) \cup IndexSet(bot10)) = Smaller(2 * TopN, Len(df))
        /\ Len(df) >= 2 * TopN /\ AllDistinct(df) =>
              IndexSet(top10) \cap IndexSet(bot10) = {}

\* C5 as amended: when every record has a survivability and these are
\* pairwise distinct, the two rankings together hold min(20, table size)
\* distinct records, and share none when the table has at least 20 records.
C5_UnionSizeDistinct ==
    pc = "done" /\ AllDistinct(df) =>
        /\ Cardinality(IndexSet(top10) \cup IndexSet(bot10)) = Smaller(2 * TopN, Len(df))
        /\ Len(df) >= 2 * TopN => IndexSet(top10) \cap IndexSet(bot10) = {}

C5_Witness ==
    /\ pc = "done" /\ AllDistinct(df) /\ Len(df) > 2 * TopN
    /\ Len(top10) = TopN /\ Len(bot10) = TopN
    /\ IndexSet(top10) \cap IndexSet(bot10) = {}

C7_ChartsIgnoreFilter ==
    pc = "done" /\ prev_run.valid => Charts = prev_run.charts

C7_Witness ==
    /\ pc = "done" /\ prev_run.valid
    /\ shown # prev_run.shown
    /\ Charts = prev_run.charts

\* C8: an execution that has ended has rendered exactly one of the no-match
\* message and the filtered table: the message when the filtered table is
\* empty, the table, never empty, otherwise.
C8_ExactlyOneRendered ==
    pc \in (AfterFilter \ {"display"}) \cup {"crashed"} =>
        /\ Len(shown) = 1
        /\ shown[1].call = "text" <=> df_filt = <<>>
        /\ shown[1].call = "table" => shown[1].rows # <<>>

\* C9: after derivation the table is, at every later stage, what it was
\* right after derivation: the loaded records with cr_num and survivability.
C9_TableUnchanged ==
    pc \in AfterDerive =>
        /\ Len(df) = Len(monsters)
        /\ \A i \in Rows(df) :
              /\ \A c \in DOMAIN monsters[i] : df[i][c] = monsters[i][c]
              /\ df[i].cr_num = parse_cr(monsters[i].cr).val
              /\ df[i].survivability = Survivability(monsters[i].ac, monsters[i].hp)

C9_Witness ==
    /\ pc = "done" /\ Len(df) = 2
    /\ \E i \in Rows(df) : df[i].source = <<>>
    /\ \E i \in Rows(df) : df[i].legendary = <<>>
    /\ \E k \in 1..Len(src) : src[k].source = "Unknown"
    /\ \E i \in Rows(leg_df) : leg_df[i].category = "Common"
    /\ Len(df_filt) < Len(df)

\* C10: survivability is ac * hp when both are present and missing when
\* either is missing.
C10_Survivability ==
    pc \in AfterDerive =>
        \A i \in Rows(df) :
            IF df[i].ac # <<>> /\ df[i].hp # <<>>
            THEN df[i].survivability = <<df[i].ac[1] * df[i].hp[1]>>
            ELSE df[i].survivability = <<>>

C10_Witness ==
    /\ pc = "sliders"
    /\ \E i \in Rows(df) :
          df[i].ac = <<15>> /\ df[i].hp = <<20>> /\ df[i].survivability = <<300>>
    /\ \E i \in Rows(df) : df[i].hp = <<>> /\ df[i].survivability = <<>>

===========================================================================
